---------------------------- MODULE Spec2Model ----------------------------
(***************************************************************************)
(* Event-synchronisation core of the interview client                      *)
(* (src/client/components/App.jsx): the tool-call buffer store and parser, *)
(* the interviewer presentation state with its two drivers, the completion *)
(* coordinator and the session start/stop hooks they depend on.            *)
(*                                                                         *)
(* Scheduling: the browser runs one callback at a time, so every handler   *)
(* (button click, data-channel event, timer, animation frame) is one       *)
(* atomic action.  React 18 (hydrateRoot, App.jsx:1449) batches the state  *)
(* updates of a handler and flushes the passive effects of a render before *)
(* the next update is processed, so the completion effect (App.jsx:347)    *)
(* is applied at the end of every action, on the state the handler left.   *)
(*                                                                         *)
(* Text is a sequence of tokens; JSON.parse and JSON.stringify are the     *)
(* operators Parse and Stringify over such sequences.                      *)
(***************************************************************************)
EXTENDS Integers, Sequences, FiniteSets, TLC

(***************************************************************************)
(* Bounds of the model.                                                    *)
(***************************************************************************)
\* most tokens of argument text held at once, over all calls
MaxBuf == 2
\* most acknowledgments sent on one data channel
MaxAcks == 1
\* most greeting timers (App.jsx:328) pending at once
MaxGreetingTimers == 1
\* most fallback timers (App.jsx:304) pending at once
MaxTalkingTimers == 2
\* most acknowledgments sent on one data channel while a completion is shown
MaxVisibleAcks == 2

(***************************************************************************)
(* Program constants.  RMS amplitudes are in thousandths (0.04 = 40).      *)
(***************************************************************************)
VAD_START_THRESHOLD == 40
VAD_STOP_THRESHOLD == 20
VAD_REQUIRED_SILENCE_MS == 300

\* JavaScript's undefined, for the string-valued fields of an event
Undefined == "undefined"

(***************************************************************************)
(* Inputs.                                                                 *)
(***************************************************************************)
CallIds == {"c1", "c2"}
ToolNames == {"complete_interview", "other_tool"}

\* RMS of one frame, in thousandths: below the stop threshold, at the stop
\* threshold, at the start threshold
RmsLevels == {10, 20, 40}

\* representative values of performance.now() - lastAboveThresholdMsRef.current
SilenceValues == {0, 250, 300, 301}

\* tokens of argument text
TokSummary == "{\"summary\":\"S\""
TokReason == ",\"reason\":\"R\""
TokClose == "}"
TokReasonClose == ",\"reason\":\"R\"}"
TokWrongTypes == "{\"summary\":42,\"reason\":\"bogus\"}"
TokNull == "null"
TokEmpty == "{}"

\* JavaScript values carried by event.delta and event.arguments
JsUndefined == [t |-> "undefined"]
JsString(s) == [t |-> "string", v |-> s]
JsObject(o) == [t |-> "object", v |-> o]

\* parsed JSON values: null, or an object with optional summary and reason
JsonNull == [k |-> "null", summary |-> Undefined, reason |-> Undefined]
JsonObject(s, r) == [k |-> "object", summary |-> s, reason |-> r]
EmptyRecord == JsonObject(Undefined, Undefined)

\* field values: a string stands for itself, Num42 for the number 42;
\* "R" stands for a reason of the declared enumeration (App.jsx:669-674),
\* "bogus" for a string outside it
Num42 == "number:42"
DeclaredReasons == {"R"}
WrongTypes == JsonObject(Num42, "bogus")

(***************************************************************************)
(* Event types.  A type tag is its dot-separated segments, each segment    *)
(* its underscore-separated words: "response.output_text.delta" is         *)
(* <<<<"response">>, <<"output", "text">>, <<"delta">>>>.                  *)
(***************************************************************************)
TypeFnArgsDelta == <<<<"response">>, <<"function", "call", "arguments">>, <<"delta">>>>
TypeFnArgsDone == <<<<"response">>, <<"function", "call", "arguments">>, <<"done">>>>
TypeCreated == <<<<"response">>, <<"created">>>>
TypeOutputTextDelta == <<<<"response">>, <<"output", "text">>, <<"delta">>>>
TypeResponseDone == <<<<"response">>, <<"done">>>>
TypeSessionUpdated == <<<<"session">>, <<"updated">>>>

ToolEventTypes == {TypeFnArgsDelta, TypeFnArgsDone}
OtherEventTypes == {TypeCreated, TypeOutputTextDelta, TypeResponseDone, TypeSessionUpdated}

\* segment seg contains the words w1 w2 next to each other
HasWords(seg, w1, w2) ==
    \E i \in 1..(Len(seg) - 1) : seg[i] = w1 /\ seg[i + 1] = w2

\* type.includes("function_call") || type.includes("tool_call")
LooksLikeToolEvent(type) ==
    \E i \in 1..Len(type) :
        HasWords(type[i], "function", "call") \/ HasWords(type[i], "tool", "call")

\* type.endsWith("." + word)
EndsWithSegment(type, word) ==
    Len(type) >= 2 /\ type[Len(type)] = <<word>>

\* a test that takes every type for a final one
IsFinalAlways(type) == TRUE

\* type.endsWith(".completed") || .endsWith(".done") || .endsWith(".finished")
\* || type === "response.function_call.completed" || type === "response.tool_call.completed"
IsFinal(type) ==
    \/ EndsWithSegment(type, "completed")
    \/ EndsWithSegment(type, "done")
    \/ EndsWithSegment(type, "finished")
    \/ type = <<<<"response">>, <<"function", "call">>, <<"completed">>>>
    \/ type = <<<<"response">>, <<"tool", "call">>, <<"completed">>>>

\* type === "response.created" || type.startsWith("response.output_") || type === "response.delta"
IsTalkDelta(type) ==
    \/ type = <<<<"response">>, <<"created">>>>
    \/ (Len(type) >= 2 /\ type[1] = <<"response">> /\ Len(type[2]) >= 2 /\ type[2][1] = "output")
    \/ type = <<<<"response">>, <<"delta">>>>

\* type === "response.completed" || type === "response.done" || type === "response.stopped"
IsTalkEnd(type) ==
    \/ type = <<<<"response">>, <<"completed">>>>
    \/ type = <<<<"response">>, <<"done">>>>
    \/ type = <<<<"response">>, <<"stopped">>>>

(***************************************************************************)
(* JSON text.                                                              *)
(***************************************************************************)
\* the text is one complete JSON value (JSON.parse does not throw)
CanParse(text) ==
    \/ text = <<TokNull>>
    \/ text = <<TokWrongTypes>>
    \/ text = <<TokEmpty>>
    \/ /\ Len(text) >= 2
       /\ text[1] = TokSummary
       /\ text[Len(text)] \in {TokClose, TokReasonClose}
       /\ \A i \in 2..(Len(text) - 1) : text[i] = TokReason

\* JSON.parse(text), for a text that parses
Parse(text) ==
    IF text = <<TokNull>> THEN JsonNull
    ELSE IF text = <<TokEmpty>> THEN EmptyRecord
    ELSE IF text = <<TokWrongTypes>> THEN WrongTypes
    ELSE JsonObject("S", IF \E i \in 2..Len(text) : text[i] \in {TokReason, TokReasonClose}
                         THEN "R" ELSE Undefined)

\* JSON.stringify(value)
Stringify(value) ==
    IF value.k = "null" THEN <<TokNull>>
    ELSE IF value = WrongTypes THEN <<TokWrongTypes>>
    ELSE IF value.summary = Undefined THEN <<TokEmpty>>
    ELSE IF value.reason = Undefined THEN <<TokSummary, TokClose>>
    ELSE <<TokSummary, TokReason, TokClose>>

\* structured values an event may carry in its arguments field
StructuredArgs == {JsonNull, EmptyRecord, JsonObject("S", "R")}

\* text fragments an event may carry
Fragments == {<<TokSummary>>, <<TokClose>>, <<TokNull>>}

(***************************************************************************)
(* Inbound events (App.jsx:225).  call is event.call.id, function is       *)
(* event.function.name, tool is event.tool.name; an absent object or field *)
(* is Undefined.                                                           *)
(***************************************************************************)
Ev(type, call_id, id, call, name, function, tool, delta, arguments) ==
    [type |-> type, call_id |-> call_id, id |-> id, call |-> call,
     name |-> name, function |-> function, tool |-> tool,
     delta |-> delta, arguments |-> arguments]

\* the payloads an event carries: <<delta, arguments>>
NoPayload == <<JsUndefined, JsUndefined>>
PayloadShapes ==
    {NoPayload}
      \cup {<<JsString(f), JsUndefined>> : f \in Fragments}
      \cup {<<JsString(<<>>), JsString(<<TokClose>>)>>}
      \cup {<<JsUndefined, JsObject(o)>> : o \in StructuredArgs}

\* events that name their call in call_id and their tool in name
NamedEvents ==
    {Ev(ty, c, Undefined, Undefined, "complete_interview", Undefined, Undefined, p[1], p[2]) :
        ty \in ToolEventTypes, c \in CallIds, p \in PayloadShapes}
      \cup
    {Ev(ty, c, Undefined, Undefined, "other_tool", Undefined, Undefined, p[1], p[2]) :
        ty \in ToolEventTypes, c \in CallIds,
        p \in {NoPayload, <<JsString(<<TokSummary>>), JsUndefined>>,
               <<JsString(<<TokNull>>), JsUndefined>>}}

\* events that name their call or their tool in a fallback field
FallbackEvents ==
    {Ev(ty, Undefined, "c1", "c2", Undefined, "complete_interview", "other_tool",
        JsString(<<TokClose>>), JsUndefined) : ty \in ToolEventTypes}
      \cup
    {Ev(ty, Undefined, Undefined, "c2", Undefined, Undefined, "other_tool",
        JsString(<<TokClose>>), JsUndefined) : ty \in ToolEventTypes}

\* tool-shaped events whose call id or name cannot be resolved
UnidentifiedEvents ==
    {Ev(ty, "c1", Undefined, Undefined, Undefined, Undefined, Undefined,
        JsString(<<TokClose>>), JsUndefined) : ty \in ToolEventTypes}
      \cup
    {Ev(ty, Undefined, Undefined, Undefined, "complete_interview", Undefined, Undefined,
        JsString(<<TokClose>>), JsUndefined) : ty \in ToolEventTypes}
      \cup
    {Ev(TypeFnArgsDelta, "c1", Undefined, Undefined, Undefined, Undefined, Undefined,
        JsString(<<TokReasonClose>>), JsUndefined)}

\* a terminal event whose structured arguments have fields of other types
\* than the declared ones
WrongTypeEvents ==
    {Ev(TypeFnArgsDone, "c1", Undefined, Undefined, "complete_interview", Undefined,
        Undefined, JsUndefined, JsObject(WrongTypes))}

ToolEvents == NamedEvents \cup FallbackEvents \cup UnidentifiedEvents \cup WrongTypeEvents

OtherEvents ==
    {Ev(ty, Undefined, Undefined, Undefined, Undefined, Undefined, Undefined,
        JsUndefined, JsUndefined) : ty \in OtherEventTypes}

Events == ToolEvents \cup OtherEvents

\* the events of the session-level model: every terminal tool event and
\* every event that is not tool-shaped
SessionEvents == {e \in Events : IsFinal(e.type) \/ ~LooksLikeToolEvent(e.type)}

\* a || b || c on strings (the empty string does not occur as an id or a name)
OrElse(a, b, c) == IF a # Undefined THEN a ELSE IF b # Undefined THEN b ELSE c

\* event.call_id || event.id || (event.call && event.call.id)
ResolveCallId(e) == OrElse(e.call_id, e.id, e.call)

\* a name chain that ends in a default name
ResolveNameOrDefault(e) ==
    IF OrElse(e.name, e.function, e.tool) = Undefined
    THEN "other_tool" ELSE OrElse(e.name, e.function, e.tool)

\* event.name || (event.function && event.function.name) || (event.tool && event.tool.name)
ResolveName(e) == OrElse(e.name, e.function, e.tool)

\* a value is truthy as a text: a non-empty string
IsText(v) == v.t = "string" /\ v.v # <<>>

\* event.delta || (typeof event.arguments === "string" ? event.arguments : undefined)
ResolveDelta(e) ==
    IF IsText(e.delta) THEN e.delta
    ELSE IF e.arguments.t = "string" THEN e.arguments
    ELSE JsUndefined

(***************************************************************************)
(* State.                                                                  *)
(***************************************************************************)
VARIABLES
    isSessionActive,        \* useState, App.jsx:9
    dataChannel,            \* useState, App.jsx:11: "null", or the channel's readyState
    peerConnection,         \* peerConnection.current: "null" or "set"
    trackDelivered,         \* pc.ontrack has run for the current peer connection
    interviewerState,       \* useState, App.jsx:17
    talkingTimeoutRef,      \* "null"; "armed": names a pending timer; "stale": names a fired or cleared one
    talkingTimers,          \* pending timers of App.jsx:304
    greetingTimers,         \* pending timers of App.jsx:328
    audioContextRef,        \* "null" or "open"
    analyserRef,            \* "null" or "set"
    vadRafRef,              \* "null"; "scheduled": names a pending frame; "stale": names a frame that ran
    vadSetup,               \* setupVoiceActivityDetection: "idle", or "resuming" at the await of App.jsx:387
    isSpeakingRef,          \* App.jsx:24
    silenceMs,              \* performance.now() - lastAboveThresholdMsRef.current
    isInterviewCompleted,   \* useState, App.jsx:30
    completionSummary,      \* useState, App.jsx:31
    completionReason,       \* useState, App.jsx:32
    toolCallBuffersRef,     \* App.jsx:33: call id -> text; <<>> is an absent key
    pendingCompletion,      \* useState, App.jsx:34
    outbox,                 \* tool.output events sent on the current data channel
    fragLog,                \* history: per call id, the text carried by its tool events since its last terminal event
    quietMs,                \* history: time since the last frame whose RMS was at or above the stop threshold
    seenText,               \* history: call id -> some tool event naming the call has carried text
    lastTerminal            \* history: the message handled last on the current channel, if it was a terminal event

vars ==
    <<isSessionActive, dataChannel, peerConnection, trackDelivered, interviewerState,
      talkingTimeoutRef, talkingTimers, greetingTimers, audioContextRef, analyserRef,
      vadRafRef, vadSetup, isSpeakingRef, silenceMs, isInterviewCompleted, completionSummary,
      completionReason, toolCallBuffersRef, pendingCompletion, outbox, fragLog,
      quietMs, seenText, lastTerminal>>

sessionVars == <<isSessionActive, dataChannel, peerConnection, trackDelivered>>
vadVars == <<audioContextRef, analyserRef, vadRafRef, vadSetup, isSpeakingRef, silenceMs, quietMs>>
toolVars ==
    <<completionSummary, completionReason, toolCallBuffersRef, outbox, fragLog,
      seenText, lastTerminal>>

\* pendingCompletion: null, or { summary, reason }
NoCompletion == [set |-> FALSE, summary |-> "", reason |-> ""]
Completion(summary, reason) == [set |-> TRUE, summary |-> summary, reason |-> reason]

\* lastTerminal when the last message was not a terminal event of a call
NoTerminal ==
    [callId |-> Undefined, name |-> Undefined, carried |-> "none",
     parse |-> "none", args |-> EmptyRecord, talk |-> "none"]

Init ==
    /\ isSessionActive = FALSE
    /\ dataChannel = "null"
    /\ peerConnection = "null"
    /\ trackDelivered = FALSE
    /\ interviewerState = "idle"
    /\ talkingTimeoutRef = "null"
    /\ talkingTimers = 0
    /\ greetingTimers = 0
    /\ audioContextRef = "null"
    /\ analyserRef = "null"
    /\ vadRafRef = "null"
    /\ vadSetup = "idle"
    /\ isSpeakingRef = FALSE
    /\ silenceMs = 301
    /\ isInterviewCompleted = FALSE
    /\ completionSummary = ""
    /\ completionReason = ""
    /\ toolCallBuffersRef = [c \in CallIds |-> <<>>]
    /\ pendingCompletion = NoCompletion
    /\ outbox = <<>>
    /\ fragLog = [c \in CallIds |-> <<>>]
    /\ quietMs = 301
    /\ seenText = [c \in CallIds |-> FALSE]
    /\ lastTerminal = NoTerminal

(***************************************************************************)
(* Completion coordinator: the effect of App.jsx:347 on the state a        *)
(* handler leaves (st, pend, comp are the handler's interviewerState,      *)
(* pendingCompletion and isInterviewCompleted).                            *)
(***************************************************************************)
\* a coordinator whose check never fires
ShouldPromoteNever(st, pend) == FALSE

\* a coordinator that does not wait for idle
ShouldPromoteAtOnce(st, pend) == pend.set

ShouldPromote(st, pend) == pend.set /\ st = "idle"

Commit(st, pend, comp) ==
    /\ interviewerState' = st
    /\ IF ShouldPromote(st, pend)
       THEN /\ isInterviewCompleted' = TRUE
            /\ pendingCompletion' = NoCompletion
       ELSE /\ isInterviewCompleted' = comp
            /\ pendingCompletion' = pend

(***************************************************************************)
(* Session lifecycle.                                                      *)
(***************************************************************************)
\* stopSession with peerConnection.current set (App.jsx:106-157) leaves these values
\* a stop that leaves the frame request alone
AfterStopVadRafKept == vadRafRef

\* a stop that leaves the pending completion alone
AfterStopPendingKept == pendingCompletion

AfterStopVadRaf == IF vadRafRef # "null" THEN "null" ELSE vadRafRef
AfterStopPending == NoCompletion
AfterStopAnalyser == IF audioContextRef # "null" THEN "null" ELSE analyserRef
AfterStopTimeout == talkingTimeoutRef

\* stopSession.  With peerConnection.current null, line 111 throws after
\* the channel (if any) was closed, and nothing else changes.
StopSession ==
    IF peerConnection = "null"
    THEN UNCHANGED vars
    ELSE /\ vadRafRef' = AfterStopVadRaf
         /\ audioContextRef' = "null"
         /\ analyserRef' = AfterStopAnalyser
         \* a resume() pending on the closed context never lets the setup continue
         /\ vadSetup' = "idle"
         /\ isSessionActive' = FALSE
         /\ dataChannel' = "null"
         /\ peerConnection' = "null"
         /\ completionSummary' = ""
         /\ completionReason' = ""
         /\ talkingTimeoutRef' = AfterStopTimeout
         /\ talkingTimers' = talkingTimers
         /\ Commit("idle", AfterStopPending, FALSE)
         /\ UNCHANGED <<trackDelivered, greetingTimers, isSpeakingRef, silenceMs,
                        toolCallBuffersRef, outbox, fragLog, quietMs,
                        seenText, lastTerminal>>

\* startSession (App.jsx:36-103), up to peerConnection.current = pc.  The
\* start buttons are rendered while isSessionActive is false.
StartSession ==
    /\ isSessionActive = FALSE
    /\ IF peerConnection = "set"
       THEN /\ vadRafRef' = AfterStopVadRaf
            /\ audioContextRef' = "null"
            /\ analyserRef' = AfterStopAnalyser
            /\ vadSetup' = "idle"
            /\ completionSummary' = ""
            /\ completionReason' = ""
            /\ Commit("idle", AfterStopPending, FALSE)
       ELSE /\ UNCHANGED <<vadRafRef, audioContextRef, analyserRef, vadSetup,
                           completionSummary, completionReason>>
            /\ Commit(interviewerState, pendingCompletion, isInterviewCompleted)
    /\ dataChannel' = "connecting"
    /\ peerConnection' = "set"
    /\ trackDelivered' = FALSE
    /\ outbox' = <<>>
    /\ UNCHANGED <<isSessionActive, talkingTimeoutRef, talkingTimers, greetingTimers, isSpeakingRef,
                   silenceMs, toolCallBuffersRef, fragLog, quietMs, seenText>>
    /\ lastTerminal' = NoTerminal

\* the data channel's open listener (App.jsx:316-342)
ChannelOpen ==
    /\ dataChannel = "connecting"
    /\ greetingTimers < MaxGreetingTimers
    /\ isSessionActive' = TRUE
    /\ dataChannel' = "open"
    /\ greetingTimers' = greetingTimers + 1
    /\ Commit("entry", pendingCompletion, isInterviewCompleted)
    /\ UNCHANGED <<peerConnection, trackDelivered, talkingTimeoutRef, talkingTimers>>
    /\ UNCHANGED vadVars
    /\ UNCHANGED toolVars

\* the greeting timer's callback (App.jsx:328-341); its send is not a tool.output
GreetingTimeout ==
    /\ greetingTimers > 0
    /\ greetingTimers' = greetingTimers - 1
    /\ Commit("talking", pendingCompletion, isInterviewCompleted)
    /\ UNCHANGED sessionVars
    /\ UNCHANGED <<talkingTimeoutRef, talkingTimers>>
    /\ UNCHANGED vadVars
    /\ UNCHANGED toolVars

\* the wrapper passed to SessionControls (App.jsx:550-553); its button is
\* rendered while the session is active and no completion is shown
SendTextMessage ==
    /\ isSessionActive
    /\ ~isInterviewCompleted
    /\ Commit("idle", pendingCompletion, isInterviewCompleted)
    /\ UNCHANGED sessionVars
    /\ UNCHANGED <<talkingTimeoutRef, talkingTimers, greetingTimers>>
    /\ UNCHANGED vadVars
    /\ UNCHANGED toolVars

(***************************************************************************)
(* Call buffer store and tool invocation parser (App.jsx:233-287).         *)
(***************************************************************************)
\* a store that keeps one text for all calls
AccumulateShared(bufs, callId, delta) ==
    IF IsText(delta) THEN [c \in CallIds |-> bufs[c] \o delta.v] ELSE bufs

\* an accumulation that puts the fragment in front of the buffered text
AccumulatePrepend(bufs, callId, delta) ==
    IF IsText(delta) THEN [bufs EXCEPT ![callId] = delta.v \o @] ELSE bufs

\* lines 244-247: append the fragment to the call's buffer
Accumulate(bufs, callId, delta) ==
    IF IsText(delta) THEN [bufs EXCEPT ![callId] = @ \o delta.v] ELSE bufs

\* a substitution that prefers the structured arguments to the buffered text
RawArgsPreferStructured(bufs, callId, e) ==
    IF e.arguments.t = "object" THEN Stringify(e.arguments.v)
    ELSE bufs[callId]

\* lines 255-259: the buffered text, else the stringified structured arguments
\* (<<>> stands for a rawArgs that is undefined)
RawArgs(bufs, callId, e) ==
    IF bufs[callId] # <<>> THEN bufs[callId]
    ELSE IF e.arguments.t = "object" THEN Stringify(e.arguments.v)
    ELSE <<>>

\* a parser whose result starts as null and stays null when nothing parses
ParsedArgsOrNull(rawArgs) ==
    IF rawArgs # <<>> /\ CanParse(rawArgs) THEN Parse(rawArgs) ELSE JsonNull

\* lines 260-265: parsed stays {} when rawArgs is empty or JSON.parse throws
ParsedArgs(rawArgs) ==
    IF rawArgs # <<>> /\ CanParse(rawArgs) THEN Parse(rawArgs) ELSE EmptyRecord

\* parsed.summary || "", parsed.reason || ""
FieldOrEmpty(field) == IF field = Undefined THEN "" ELSE field

\* a cleanup that empties the store
DeleteBufferAll(bufs, callId) == [c \in CallIds |-> <<>>]

\* a cleanup that removes nothing
DeleteBufferKept(bufs, callId) == bufs

\* line 283: delete toolCallBuffersRef.current[callId]
DeleteBuffer(bufs, callId) == [bufs EXCEPT ![callId] = <<>>]

\* an acknowledgment that names no call
AcknowledgmentUntagged(callId) ==
    [type |-> "tool.output", call_id |-> Undefined, output |-> "{\"acknowledged\":true}"]

\* line 275-279: the acknowledgment
Acknowledgment(callId) ==
    [type |-> "tool.output", call_id |-> callId, output |-> "{\"acknowledged\":true}"]

\* lines 240-265: the arguments record a terminal event produces
ProducedArguments(e) ==
    LET callId == ResolveCallId(e)
    IN  ParsedArgs(RawArgs(Accumulate(toolCallBuffersRef, callId, ResolveDelta(e)), callId, e))

\* What the try block of lines 233-287 does with event e: the buffers it
\* leaves, whether it reached lines 268-279 (routed), and with what record
\* and acknowledgment.  Reading parsed.summary of a parsed null throws; the
\* catch of line 287 swallows it and line 283 is not reached.
ToolHandling(e) ==
    LET callId == ResolveCallId(e)
        name == ResolveName(e)
        delta == ResolveDelta(e)
        untouched == [buffers |-> toolCallBuffersRef, routed |-> FALSE,
                      record |-> NoCompletion, ack |-> <<>>]
    IN  IF ~LooksLikeToolEvent(e.type) \/ callId = Undefined \/ name = Undefined
        THEN untouched
        ELSE LET bufs == Accumulate(toolCallBuffersRef, callId, delta)
                 parsed == ProducedArguments(e)
             IN  IF ~IsFinal(e.type)
                 THEN [untouched EXCEPT !.buffers = bufs]
                 ELSE IF name = "complete_interview"
                 THEN IF parsed.k = "null"
                      THEN [untouched EXCEPT !.buffers = bufs]
                      ELSE [buffers |-> DeleteBuffer(bufs, callId),
                            routed |-> TRUE,
                            record |-> Completion(FieldOrEmpty(parsed.summary),
                                                  FieldOrEmpty(parsed.reason)),
                            ack |-> <<Acknowledgment(callId)>>]
                 ELSE [untouched EXCEPT !.buffers = DeleteBuffer(bufs, callId)]

\* the text a tool event carries, whatever it resolves to
CarriedText(e) == IF ResolveDelta(e).t = "string" THEN ResolveDelta(e).v ELSE <<>>

\* history of the fragments: every tool event that names call id c adds its
\* text, a terminal event for c starts the next invocation's history
LogFragment(e) ==
    LET callId == ResolveCallId(e)
    IN  IF ~LooksLikeToolEvent(e.type) \/ callId = Undefined
        THEN fragLog
        ELSE IF IsFinal(e.type)
        THEN [fragLog EXCEPT ![callId] = <<>>]
        ELSE [fragLog EXCEPT ![callId] = @ \o CarriedText(e)]

\* lines 255-265 on the text rawArgs: "absent" when it is undefined,
\* "failed" when JSON.parse throws, "parsed" otherwise
ParseOutcome(rawArgs) ==
    IF rawArgs = <<>> THEN "absent"
    ELSE IF CanParse(rawArgs) THEN "parsed"
    ELSE "failed"

\* the text lines 255-259 hand to the parser at event e
RawArgsAt(e) ==
    LET callId == ResolveCallId(e)
    IN  RawArgs(Accumulate(toolCallBuffersRef, callId, ResolveDelta(e)), callId, e)

\* history of the calls whose events carried text, named or not
TraceText(e) ==
    LET callId == ResolveCallId(e)
    IN  IF LooksLikeToolEvent(e.type) /\ callId # Undefined /\ CarriedText(e) # <<>>
        THEN [seenText EXCEPT ![callId] = TRUE]
        ELSE seenText

\* how lines 290-298 classify a type: talk "start", talk "end" or "none"
TalkKind(type) ==
    IF IsTalkDelta(type) THEN "start"
    ELSE IF IsTalkEnd(type) THEN "end"
    ELSE "none"

\* what event e carries: "text", structured arguments ("object") or "none"
Carried(e) ==
    IF CarriedText(e) # <<>> THEN "text"
    ELSE IF e.arguments.t = "object" THEN "object"
    ELSE "none"

\* history of the message handled last: for a terminal event that reached
\* line 254, its call, name, payload kind, parse outcome and arguments
\* record; "dropped" for a tool-shaped event that failed the test of line 243
TraceTerminal(e) ==
    IF LooksLikeToolEvent(e.type)
          /\ (ResolveCallId(e) = Undefined \/ ResolveName(e) = Undefined)
    THEN [NoTerminal EXCEPT !.carried = Carried(e), !.parse = "dropped"]
    ELSE IF LooksLikeToolEvent(e.type) /\ IsFinal(e.type)
    THEN [callId |-> ResolveCallId(e), name |-> ResolveName(e),
          carried |-> Carried(e), parse |-> ParseOutcome(RawArgsAt(e)),
          args |-> ProducedArguments(e), talk |-> TalkKind(e.type)]
    ELSE [NoTerminal EXCEPT !.talk = TalkKind(e.type)]

(***************************************************************************)
(* Driver A (App.jsx:289-312).                                             *)
(***************************************************************************)
\* a driver that leaves the state alone while the speaking mark is set
DriverAStateDeferring(type, st) ==
    IF isSpeakingRef THEN st
    ELSE IF IsTalkEnd(type) THEN "idle"
    ELSE IF IsTalkDelta(type) THEN "talking"
    ELSE st

\* a driver that replays the entry state when a response ends
DriverAStateRestart(type, st) ==
    IF IsTalkEnd(type) THEN "entry"
    ELSE IF IsTalkDelta(type) THEN "talking"
    ELSE st

\* interviewerState after the event-based driver has seen type
DriverAState(type, st) ==
    IF IsTalkEnd(type) THEN "idle"
    ELSE IF IsTalkDelta(type) THEN "talking"
    ELSE st

\* a talk start that arms a timer without cancelling the one the ref names
ClearedTimersNone(ref) == 0

\* clearTimeout(talkingTimeoutRef.current), lines 302 and 309: the timers it
\* cancels; clearing a timer that has fired or was cleared cancels nothing
ClearedTimers(ref) == IF ref = "armed" THEN 1 ELSE 0

\* pending fallback timers after the event-based driver has seen type
DriverATimers(type, ref, timers) ==
    IF IsTalkDelta(type) THEN timers - ClearedTimers(ref) + 1
    ELSE IF IsTalkEnd(type) /\ ref # "null" THEN timers - ClearedTimers(ref)
    ELSE timers

\* a driver that never arms the fallback timer
DriverATimeoutKept(type, ref) == ref

\* a driver that leaves the fallback timer armed at a talk end
DriverATimeoutNoCancel(type, ref) ==
    IF IsTalkDelta(type) THEN "armed" ELSE ref

\* talkingTimeoutRef after the event-based driver has seen type
DriverATimeout(type, ref) ==
    IF IsTalkDelta(type) THEN "armed"
    ELSE IF IsTalkEnd(type) /\ ref # "null" THEN "stale"
    ELSE ref

\* tokens held by a store, over all calls
RECURSIVE TotalLen(_, _)
TotalLen(bufs, ids) ==
    IF ids = {} THEN 0
    ELSE LET c == CHOOSE x \in ids : TRUE
         IN  Len(bufs[c]) + TotalLen(bufs, ids \ {c})

\* the try block of lines 233-287 throws at event e: a terminal
\* complete_interview event whose arguments parse to null (line 268)
ToolHandlingThrows(e) ==
    /\ LooksLikeToolEvent(e.type)
    /\ ResolveCallId(e) # Undefined
    /\ ResolveName(e) = "complete_interview"
    /\ IsFinal(e.type)
    /\ ProducedArguments(e).k = "null"

\* a listener that an error of the tool handling ends
ReachesDriverAUnlessThrown(e) == ~ToolHandlingThrows(e)

\* line 287: the catch swallows every error of the tool handling, so the
\* listener goes on to the classification of lines 289-312
ReachesDriverA(e) == TRUE

\* the data channel's message listener (App.jsx:224-313); a closed channel
\* delivers nothing
ReceiveWithin(e, maxAcks) ==
    /\ dataChannel = "open"
    /\ LET tool == ToolHandling(e)
       IN  /\ TotalLen(tool.buffers, CallIds) <= MaxBuf
           /\ Len(outbox) + Len(tool.ack) <= maxAcks
           /\ toolCallBuffersRef' = tool.buffers
           /\ outbox' = outbox \o tool.ack
           /\ completionSummary' = IF tool.routed THEN tool.record.summary ELSE completionSummary
           /\ completionReason' = IF tool.routed THEN tool.record.reason ELSE completionReason
           /\ talkingTimeoutRef' = IF ReachesDriverA(e)
                                    THEN DriverATimeout(e.type, talkingTimeoutRef)
                                    ELSE talkingTimeoutRef
           /\ talkingTimers' = IF ReachesDriverA(e)
                                THEN DriverATimers(e.type, talkingTimeoutRef, talkingTimers)
                                ELSE talkingTimers
           /\ talkingTimers' <= MaxTalkingTimers
           /\ Commit(IF ReachesDriverA(e)
                     THEN DriverAState(e.type, interviewerState)
                     ELSE interviewerState,
                     IF tool.routed THEN tool.record ELSE pendingCompletion,
                     isInterviewCompleted)
    /\ UNCHANGED sessionVars
    /\ UNCHANGED greetingTimers
    /\ UNCHANGED vadVars

Receive(e) == ReceiveWithin(e, MaxAcks)

\* the listener, without the fragment history
OnMessage(e) ==
    /\ Receive(e)
    /\ UNCHANGED <<fragLog, seenText, lastTerminal>>

\* the listener, with the fragment history kept
OnMessageLogged(e) ==
    /\ Receive(e)
    /\ TotalLen(LogFragment(e), CallIds) <= MaxBuf
    /\ fragLog' = LogFragment(e)
    /\ UNCHANGED <<seenText, lastTerminal>>

\* the listener, with the history of texts seen and of the last terminal event
OnMessageTraced(e) ==
    /\ Receive(e)
    /\ seenText' = TraceText(e)
    /\ lastTerminal' = TraceTerminal(e)
    /\ UNCHANGED fragLog

\* the listener on a channel that carries up to MaxVisibleAcks acknowledgments
OnMessageVisible(e) ==
    /\ ReceiveWithin(e, MaxVisibleAcks)
    /\ seenText' = TraceText(e)
    /\ lastTerminal' = TraceTerminal(e)
    /\ UNCHANGED fragLog

\* the fallback timer's callback (App.jsx:304-306)
FallbackTimeout ==
    /\ talkingTimers > 0
    /\ talkingTimers' = talkingTimers - 1
    \* timers of one duration fire in the order they were armed: the ref
    \* names the one armed last
    /\ talkingTimeoutRef' = IF talkingTimers = 1 THEN "stale" ELSE talkingTimeoutRef
    /\ Commit("idle", pendingCompletion, isInterviewCompleted)
    /\ UNCHANGED sessionVars
    /\ UNCHANGED greetingTimers
    /\ UNCHANGED vadVars
    /\ UNCHANGED toolVars

(***************************************************************************)
(* Driver B: voice activity detection (App.jsx:380-435).                   *)
(***************************************************************************)
\* lines 390-431: the part of the setup after the context is running
FinishSetup ==
    /\ analyserRef' = "set"
    /\ vadRafRef' = "scheduled"
    /\ vadSetup' = "idle"

\* pc.ontrack (App.jsx:52-56) and the setup up to its await; suspended is
\* audioCtx.state === "suspended"
OnTrack(suspended) ==
    /\ peerConnection = "set"
    /\ ~trackDelivered
    /\ trackDelivered' = TRUE
    /\ audioContextRef' = "open"
    /\ IF suspended
       THEN vadSetup' = "resuming" /\ UNCHANGED <<analyserRef, vadRafRef>>
       ELSE FinishSetup
    /\ UNCHANGED <<isSessionActive, dataChannel, peerConnection>>
    /\ UNCHANGED <<interviewerState, isInterviewCompleted, pendingCompletion>>
    /\ UNCHANGED <<talkingTimeoutRef, talkingTimers, greetingTimers, isSpeakingRef, silenceMs, quietMs>>
    /\ UNCHANGED toolVars

\* audioCtx.resume() resolved: the setup continues after line 387
VadResumed ==
    /\ vadSetup = "resuming"
    /\ FinishSetup
    /\ UNCHANGED sessionVars
    /\ UNCHANGED <<interviewerState, isInterviewCompleted, pendingCompletion>>
    /\ UNCHANGED <<talkingTimeoutRef, talkingTimers, greetingTimers, audioContextRef, isSpeakingRef,
                   silenceMs, quietMs>>
    /\ UNCHANGED toolVars

\* a sampler with one threshold
FrameVerdictSingleThreshold(rms, speaking, silence) ==
    IF rms >= VAD_STOP_THRESHOLD THEN "start"
    ELSE IF speaking /\ silence > VAD_REQUIRED_SILENCE_MS THEN "stop"
    ELSE "none"

\* a sampler that clears the speaking mark on the first quiet frame
FrameVerdictNoHold(rms, speaking, silence) ==
    IF rms >= VAD_START_THRESHOLD THEN "start"
    ELSE IF speaking /\ rms < VAD_STOP_THRESHOLD THEN "stop"
    ELSE "none"

\* the frame's verdict (lines 412-425): "start", "stop" or "none"
FrameVerdict(rms, speaking, silence) ==
    IF rms >= VAD_START_THRESHOLD THEN "start"
    ELSE IF speaking /\ rms < VAD_STOP_THRESHOLD /\ silence > VAD_REQUIRED_SILENCE_MS
    THEN "stop"
    ELSE "none"

\* one animation frame of the sampler (App.jsx:399-428)
Tick(rms) ==
    /\ vadRafRef = "scheduled"
    /\ IF analyserRef = "null"
       THEN /\ vadRafRef' = "stale"
            /\ UNCHANGED <<isSpeakingRef, silenceMs, quietMs>>
            /\ UNCHANGED <<interviewerState, isInterviewCompleted, pendingCompletion>>
       ELSE LET verdict == FrameVerdict(rms, isSpeakingRef, silenceMs)
            IN  /\ vadRafRef' = "scheduled"
                /\ silenceMs' = IF verdict = "start" THEN 0 ELSE silenceMs
                /\ quietMs' = IF rms >= VAD_STOP_THRESHOLD THEN 0 ELSE quietMs
                /\ isSpeakingRef' = CASE verdict = "start" -> TRUE
                                      [] verdict = "stop" -> FALSE
                                      [] OTHER -> isSpeakingRef
                /\ Commit(CASE verdict = "start" /\ ~isSpeakingRef -> "talking"
                            [] verdict = "stop" -> "idle"
                            [] OTHER -> interviewerState,
                          pendingCompletion, isInterviewCompleted)
    /\ UNCHANGED sessionVars
    /\ UNCHANGED <<talkingTimeoutRef, talkingTimers, greetingTimers, audioContextRef, analyserRef, vadSetup>>
    /\ UNCHANGED toolVars

\* time passes: performance.now() moves away from lastAboveThresholdMsRef.current
Advance ==
    /\ \E later \in SilenceValues :
          /\ later > silenceMs
          /\ silenceMs' = later
          /\ quietMs' = IF quietMs + (later - silenceMs) > 301
                         THEN 301 ELSE quietMs + (later - silenceMs)
    /\ UNCHANGED sessionVars
    /\ UNCHANGED <<interviewerState, isInterviewCompleted, pendingCompletion>>
    /\ UNCHANGED <<talkingTimeoutRef, talkingTimers, greetingTimers, audioContextRef, analyserRef,
                   vadRafRef, vadSetup, isSpeakingRef>>
    /\ UNCHANGED toolVars

Next ==
    \/ StartSession
    \/ ChannelOpen
    \/ StopSession
    \/ GreetingTimeout
    \/ SendTextMessage
    \/ \E e \in SessionEvents : OnMessage(e)
    \/ FallbackTimeout
    \/ \E suspended \in BOOLEAN : OnTrack(suspended)
    \/ VadResumed
    \/ \E rms \in RmsLevels : Tick(rms)
    \/ Advance

Spec == Init /\ [][Next]_vars

\* the buffer store under session start and stop, with the fragment history
NextStore ==
    \/ StartSession
    \/ ChannelOpen
    \/ StopSession
    \/ GreetingTimeout
    \/ \E e \in ToolEvents : OnMessageLogged(e)

SpecStore == Init /\ [][NextStore]_vars

\* fragment and terminal events of complete_interview for both calls that
\* carry nothing or one of two texts
IsolationEvents ==
    {e \in NamedEvents :
        /\ e.name = "complete_interview"
        /\ e.arguments = JsUndefined
        /\ e.delta \in {JsUndefined, JsString(<<TokSummary>>), JsString(<<TokClose>>)}}

\* the buffer store under interleaved events of two calls
NextIsolation ==
    \/ StartSession
    \/ ChannelOpen
    \/ StopSession
    \/ \E e \in IsolationEvents : OnMessageLogged(e)

SpecIsolation == Init /\ [][NextIsolation]_vars

\* terminal events that name a call and a tool other than complete_interview
OtherToolTerminalEvents ==
    {e \in ToolEvents :
        /\ IsFinal(e.type)
        /\ OrElse(e.call_id, e.id, e.call) # Undefined
        /\ OrElse(e.name, e.function, e.tool) \notin {Undefined, "complete_interview"}}

\* both drivers and the session: the events that are not tool-shaped and
\* the bare terminal events of two calls, with the history of the message
\* handled last
DriverEvents ==
    OtherEvents \cup
    {e \in IsolationEvents : e.type = TypeFnArgsDone /\ e.delta = JsUndefined}

\* the same with one fragment event for each call
LifetimeEvents ==
    DriverEvents \cup
    {e \in IsolationEvents :
        \/ e.type = TypeFnArgsDelta /\ e.call_id = "c1" /\ e.delta = JsString(<<TokSummary>>)
        \/ e.type = TypeFnArgsDelta /\ e.call_id = "c2" /\ e.delta = JsString(<<TokClose>>)}

NextDrivers ==
    \/ StartSession
    \/ ChannelOpen
    \/ StopSession
    \/ GreetingTimeout
    \/ SendTextMessage
    \/ \E e \in DriverEvents : OnMessageTraced(e)
    \/ FallbackTimeout
    \/ \E suspended \in BOOLEAN : OnTrack(suspended)
    \/ VadResumed
    \/ \E rms \in RmsLevels : Tick(rms)
    \/ Advance

SpecDrivers == Init /\ [][NextDrivers]_vars

\* both drivers, the session and the buffer store
NextLifetime ==
    \/ StartSession
    \/ ChannelOpen
    \/ StopSession
    \/ GreetingTimeout
    \/ SendTextMessage
    \/ \E e \in LifetimeEvents : OnMessageTraced(e)
    \/ FallbackTimeout
    \/ \E suspended \in BOOLEAN : OnTrack(suspended)
    \/ VadResumed
    \/ \E rms \in RmsLevels : Tick(rms)
    \/ Advance

SpecLifetime == Init /\ [][NextLifetime]_vars

\* the parser under session start and stop, with the history of texts seen
\* and of the last terminal event
NextParse ==
    \/ StartSession
    \/ ChannelOpen
    \/ StopSession
    \/ \E e \in ToolEvents : OnMessageTraced(e)

SpecParse == Init /\ [][NextParse]_vars

\* a type that is tool-shaped, final and a talk start:
\* "response.output_tool_call.done"
TypeOutputToolCallDone == <<<<"response">>, <<"output", "tool", "call">>, <<"done">>>>

\* events of that type whose tool handling completes (no payload), throws
\* (the text null) and is skipped (no name), and the real terminal event
\* whose tool handling throws
TalkingToolEvents ==
    {Ev(TypeOutputToolCallDone, "c1", Undefined, Undefined, "complete_interview",
        Undefined, Undefined, p[1], p[2]) :
        p \in {NoPayload, <<JsString(<<TokNull>>), JsUndefined>>}}
      \cup
    {Ev(TypeOutputToolCallDone, "c1", Undefined, Undefined, Undefined,
        Undefined, Undefined, JsString(<<TokNull>>), JsUndefined)}
      \cup
    {Ev(TypeFnArgsDone, "c1", Undefined, Undefined, "complete_interview",
        Undefined, Undefined, JsString(<<TokNull>>), JsUndefined)}

ListenerEvents == TalkingToolEvents \cup OtherEvents

\* the listener and Driver A under events that are tool events and talk
\* starts at once
NextListener ==
    \/ StartSession
    \/ ChannelOpen
    \/ StopSession
    \/ GreetingTimeout
    \/ \E e \in ListenerEvents : OnMessageTraced(e)
    \/ FallbackTimeout

SpecListener == Init /\ [][NextListener]_vars

\* terminal complete_interview events of c1 with no payload and with
\* structured arguments, and the events that are not tool-shaped
VisibleEvents ==
    OtherEvents \cup
    {e \in NamedEvents :
        /\ e.type = TypeFnArgsDone
        /\ e.call_id = "c1"
        /\ e.name = "complete_interview"
        /\ e.delta = JsUndefined
        /\ e.arguments \in {JsUndefined, JsObject(JsonObject("S", "R"))}}

\* the completion screen under several invocations in one session
NextVisible ==
    \/ StartSession
    \/ ChannelOpen
    \/ StopSession
    \/ GreetingTimeout
    \/ \E e \in VisibleEvents : OnMessageVisible(e)
    \/ FallbackTimeout

SpecVisible == Init /\ [][NextVisible]_vars

\* the program with its timers firing and its frames running
SpecLive ==
    /\ Init
    /\ [][NextDrivers]_vars
    /\ WF_vars(GreetingTimeout)
    /\ WF_vars(FallbackTimeout)
    /\ WF_vars(\E rms \in RmsLevels : Tick(rms))
    /\ WF_vars(Advance)

(***************************************************************************)
(* Properties.                                                             *)
(***************************************************************************)
\* a terminal tool event whose call id and name both resolve
IsTerminalFor(e) ==
    /\ LooksLikeToolEvent(e.type)
    /\ IsFinal(e.type)
    /\ ResolveCallId(e) # Undefined
    /\ ResolveName(e) # Undefined

\* a tool event accepted as a fragment: call id and name resolve, not terminal
IsFragmentFor(e) ==
    /\ LooksLikeToolEvent(e.type)
    /\ ~IsFinal(e.type)
    /\ ResolveCallId(e) # Undefined
    /\ ResolveName(e) # Undefined

\* no session: stopSession has run to its end, or none was ever started
Stopped == peerConnection = "null"

\* C1: every step that makes the completion visible ends with
\* interviewerState idle, and the record it shows was pending before the
\* step or was stored by the step itself (which then also acknowledged it);
\* so no completion becomes visible while the state is talking.
C1_DeferredVisibility ==
    [][(~isInterviewCompleted /\ isInterviewCompleted')
          => /\ interviewerState' = "idle"
             /\ ~pendingCompletion'.set
             /\ (pendingCompletion.set \/ Len(outbox') = Len(outbox) + 1)]_vars

\* C1 witness: a record with a summary is visible, after a fallback expiry
C1_Witness ==
    /\ isInterviewCompleted
    /\ completionSummary = "S"
    /\ interviewerState = "idle"
    /\ talkingTimeoutRef = "stale"

\* C2: every terminal event that names a call and complete_interview sends
\* exactly one acknowledgment for that call in the step that handles it.
C2_AckPerFinalization ==
    [][\A e \in ToolEvents :
          (OnMessageLogged(e) /\ IsTerminalFor(e) /\ ResolveName(e) = "complete_interview")
            => outbox' = Append(outbox, Acknowledgment(ResolveCallId(e)))]_vars

\* C3: at a terminal event that carries no arguments of its own, the
\* arguments record produced is the decoding of the concatenation of the
\* text of the call's fragment events since its previous terminal event.
C3_BufferReconstruction ==
    [][\A e \in ToolEvents :
          (OnMessageLogged(e) /\ IsTerminalFor(e)
             /\ e.delta.t = "undefined" /\ e.arguments.t = "undefined")
            => ProducedArguments(e) = ParsedArgs(fragLog[ResolveCallId(e)])]_vars

\* C4: an event changes no buffer but the one of the call it names, and a
\* fragment event extends that buffer by exactly its own text.
C4_Isolation ==
    [][\A e \in ToolEvents :
          OnMessageLogged(e)
            => /\ \A d \in CallIds \ {ResolveCallId(e)} :
                     toolCallBuffersRef'[d] = toolCallBuffersRef[d]
               /\ IsFragmentFor(e)
                     => toolCallBuffersRef'[ResolveCallId(e)]
                          = toolCallBuffersRef[ResolveCallId(e)] \o CarriedText(e)]_vars

\* C4 witness: two calls hold different texts at once
C4_Witness ==
    /\ toolCallBuffersRef["c1"] = <<TokSummary>>
    /\ toolCallBuffersRef["c2"] = <<TokClose>>

\* C5: after a terminal event that names a call and a tool, the store holds
\* no buffer for that call.
C5_UnconditionalCleanup ==
    [][\A e \in ToolEvents :
          (OnMessageLogged(e) /\ IsTerminalFor(e))
            => toolCallBuffersRef'[ResolveCallId(e)] = <<>>]_vars

\* C6: while no session exists the buffer store is empty.
C6_StoreEmptyAfterStop ==
    Stopped => \A c \in CallIds : toolCallBuffersRef[c] = <<>>

\* C7: while no data channel is open (after stopSession, until the next
\* session's channel opens) no completion is pending and none is visible.
C7_CompletionClearedAfterStop ==
    dataChannel # "open" => ~pendingCompletion.set /\ ~isInterviewCompleted

\* C7 witness: a session that acknowledged a completion was stopped while
\* its fallback timer was armed
C7_Witness ==
    /\ Stopped
    /\ outbox # <<>>
    /\ talkingTimeoutRef = "armed"

\* C8: while no session exists interviewerState is idle.
C8_IdleAfterStop ==
    Stopped => interviewerState = "idle"

\* C9: while no session exists no fallback timer is armed.
C9_NoFallbackTimerAfterStop ==
    Stopped => talkingTimeoutRef # "armed"

\* C10: while no session exists no frame of the sampler is scheduled, no
\* setup is waiting to schedule one and the analyser is released, so no
\* tick runs.
C10_NoSamplerAfterStop ==
    Stopped => vadRafRef # "scheduled" /\ vadSetup = "idle" /\ analyserRef = "null"

\* C10 witness: a session was stopped while its sampler had the speaking mark set
C10_Witness ==
    /\ Stopped
    /\ isSpeakingRef
    /\ trackDelivered

C12_ScenarioOne ==
    [][\A e \in ToolEvents :
          (/\ OnMessageLogged(e)
           /\ IsTerminalFor(e)
           /\ ResolveName(e) = "complete_interview"
           /\ ResolveCallId(e) = "c1"
           /\ e.delta.t = "undefined" /\ e.arguments.t = "undefined"
           /\ fragLog["c1"] = <<TokSummary, TokReasonClose>>)
            => completionSummary' = "S" /\ completionReason' = "R"]_vars

\* C13: after a terminal event whose accumulated text did not parse, the
\* arguments record produced is empty and the call's buffer is removed; for
\* complete_interview the record with empty summary and reason is stored
\* (pending, or shown at once when the state is idle) and the call's
\* acknowledgment is the last event sent.
C13_MalformedDegrades ==
    (dataChannel = "open" /\ lastTerminal.parse = "failed")
      => /\ lastTerminal.args = EmptyRecord
         /\ toolCallBuffersRef[lastTerminal.callId] = <<>>
         /\ lastTerminal.name = "complete_interview"
               => /\ completionSummary = "" /\ completionReason = ""
                  /\ \/ pendingCompletion = Completion("", "")
                     \/ isInterviewCompleted /\ interviewerState = "idle"
                  /\ outbox # <<>>
                  /\ outbox[Len(outbox)] = Acknowledgment(lastTerminal.callId)

\* C13 witness: the last message, a terminal complete_interview event for
\* c1, had text that did not parse; the empty record is pending
C13_Witness ==
    /\ dataChannel = "open"
    /\ lastTerminal.callId = "c1"
    /\ lastTerminal.name = "complete_interview"
    /\ lastTerminal.parse = "failed"
    /\ pendingCompletion = Completion("", "")

\* C14: after a terminal event that carried neither text nor structured
\* arguments, for a call none of whose events ever carried text, the
\* arguments record produced is empty (no text was handed to the parser) and
\* the store holds no buffer for the call; for complete_interview the empty
\* record is stored and acknowledged.
C14_ScenarioTwo ==
    (/\ dataChannel = "open"
     /\ lastTerminal.callId \in CallIds
     /\ lastTerminal.carried = "none"
     /\ ~seenText[lastTerminal.callId])
      => /\ lastTerminal.parse = "absent"
         /\ lastTerminal.args = EmptyRecord
         /\ toolCallBuffersRef[lastTerminal.callId] = <<>>
         /\ lastTerminal.name = "complete_interview"
               => /\ completionSummary = "" /\ completionReason = ""
                  /\ outbox # <<>>
                  /\ outbox[Len(outbox)] = Acknowledgment(lastTerminal.callId)

\* C14 witness: the last message was a bare terminal complete_interview
\* event for c1, no event of c1 ever carried text, and c2 holds a buffer
C14_Witness ==
    /\ dataChannel = "open"
    /\ lastTerminal.callId = "c1"
    /\ lastTerminal.name = "complete_interview"
    /\ lastTerminal.carried = "none"
    /\ ~seenText["c1"]
    /\ toolCallBuffersRef["c2"] # <<>>
    /\ pendingCompletion = Completion("", "")

\* C15: a tool-shaped event without a call identifier or without a name in
\* any field of the chains, fragment or terminal, leaves the buffer store,
\* the pending and the visible completion and the outbound channel as they
\* were.
C15_UnidentifiedDropped ==
    [][\A e \in UnidentifiedEvents :
          (lastTerminal' = TraceTerminal(e) /\ OnMessageTraced(e))
            => UNCHANGED <<toolCallBuffersRef, pendingCompletion, isInterviewCompleted,
                           completionSummary, completionReason, outbox>>]_vars

\* C15 witness: the last message was a tool-shaped event that carried text
\* and was dropped, while a completion was pending and c2 held a buffer
C15_Witness ==
    /\ dataChannel = "open"
    /\ lastTerminal.parse = "dropped"
    /\ lastTerminal.carried = "text"
    /\ pendingCompletion.set
    /\ toolCallBuffersRef["c1"] = <<>>
    /\ toolCallBuffersRef["c2"] # <<>>

\* C16: a terminal event that names a tool other than complete_interview
\* removes the buffer of its call and leaves every other buffer, the pending
\* and the visible completion and the outbound channel as they were.
C16_UnknownToolDropped ==
    [][\A e \in OtherToolTerminalEvents :
          (lastTerminal'.name = "other_tool" /\ OnMessageTraced(e))
            => /\ toolCallBuffersRef'
                    = [toolCallBuffersRef EXCEPT ![OrElse(e.call_id, e.id, e.call)] = <<>>]
               /\ UNCHANGED <<pendingCompletion, isInterviewCompleted,
                              completionSummary, completionReason, outbox>>]_vars

\* C16 witness: the last message was a terminal other_tool event for c2
\* whose text parsed, while a completion was pending
C16_Witness ==
    /\ dataChannel = "open"
    /\ lastTerminal.callId = "c2"
    /\ lastTerminal.name = "other_tool"
    /\ lastTerminal.parse = "parsed"
    /\ toolCallBuffersRef["c2"] = <<>>
    /\ pendingCompletion.set
    /\ Len(outbox) = 1

\* C17: whenever an event is sent on the open channel, the message handled
\* is a terminal complete_interview event, and exactly one event is sent: of
\* type tool.output, with the call identifier resolved for that terminal
\* event and the payload {"acknowledged":true}, whatever the parse outcome.
C17_AcknowledgmentContent ==
    [][(dataChannel = "open" /\ dataChannel' = "open" /\ outbox' # outbox)
          => /\ lastTerminal'.name = "complete_interview"
             /\ lastTerminal'.callId \in CallIds
             /\ outbox' = Append(outbox, [type |-> "tool.output",
                                           call_id |-> lastTerminal'.callId,
                                           output |-> "{\"acknowledged\":true}"])]_vars

\* C17 witness: a terminal event that named its call in the id field and
\* whose text did not parse was acknowledged for c1
C17_Witness ==
    /\ dataChannel = "open"
    /\ lastTerminal.callId = "c1"
    /\ lastTerminal.parse = "failed"
    /\ lastTerminal.name = "complete_interview"
    /\ outbox = <<[type |-> "tool.output", call_id |-> "c1",
                   output |-> "{\"acknowledged\":true}"]>>
    /\ toolCallBuffersRef["c2"] # <<>>

\* a step of Driver A (an event it classifies, or its fallback timer) or of
\* Driver B (a frame of the sampler)
DriverStep ==
    \/ \E e \in SessionEvents :
          (IsTalkDelta(e.type) \/ IsTalkEnd(e.type)) /\ OnMessage(e)
    \/ FallbackTimeout
    \/ \E rms \in RmsLevels : Tick(rms)

\* C18: every step inside a session that changes interviewerState is a step
\* of Driver A or of Driver B.
C18_ExclusiveWriters ==
    [][(isSessionActive /\ isSessionActive' /\ interviewerState' # interviewerState)
          => DriverStep]_vars

\* C19: the step that starts a session leaves interviewerState at entry, and
\* inside the session only a step of Driver A or Driver B takes it away from
\* entry.
C19_EntryUntilDriverWrites ==
    [][/\ (~isSessionActive /\ isSessionActive') => interviewerState' = "entry"
       /\ (isSessionActive /\ isSessionActive'
             /\ interviewerState = "entry" /\ interviewerState' # "entry")
            => DriverStep]_vars

\* C20: no step ends with a completion pending while interviewerState is
\* idle; a pending completion leaves pendingCompletion only by being shown
\* (in a step that ends idle, with its own summary and reason) or by the
\* session being torn down.
C20_Promotion ==
    [][/\ ~(pendingCompletion'.set /\ interviewerState' = "idle")
       /\ (pendingCompletion.set /\ ~pendingCompletion'.set)
            => \/ dataChannel' # "open"
               \/ /\ isInterviewCompleted'
                  /\ interviewerState' = "idle"
                  /\ completionSummary' = pendingCompletion.summary
                  /\ completionReason' = pendingCompletion.reason]_vars

\* C20 witness: a completion with summary and reason is shown in a session
\* whose sampler has cleared the speaking mark after the hold
C20_Witness ==
    /\ isInterviewCompleted
    /\ ~pendingCompletion.set
    /\ completionSummary = "S" /\ completionReason = "R"
    /\ interviewerState = "idle"
    /\ dataChannel = "open"
    /\ analyserRef = "set"
    /\ ~isSpeakingRef
    /\ silenceMs = 301
    /\ quietMs = 51

\* C21: a message that finalizes complete_interview while a completion is
\* pending or visible sends one more acknowledgment and stores the summary
\* and reason of its own arguments.
C21_NoDeduplication ==
    [][(/\ dataChannel = "open" /\ dataChannel' = "open"
        /\ lastTerminal'.name = "complete_interview"
        /\ (pendingCompletion.set \/ isInterviewCompleted))
          => /\ Len(outbox') = Len(outbox) + 1
             /\ completionSummary' = FieldOrEmpty(lastTerminal'.args.summary)
             /\ completionReason' = FieldOrEmpty(lastTerminal'.args.reason)]_vars

\* C22: the summary stored is a string and the reason stored is empty or
\* one of the declared reasons.
C22_RecordDefaults ==
    /\ completionSummary # Num42
    /\ completionReason \in {""} \cup DeclaredReasons
    /\ pendingCompletion.summary # Num42
    /\ pendingCompletion.reason \in {""} \cup DeclaredReasons

\* C23: every talk-start event ends with interviewerState talking and the
\* fallback timer armed; the armed timer stops being armed only by its expiry
\* or a talk-end event, and that step ends with interviewerState idle.
C23_TalkStartAndWatchdog ==
    [][/\ \A e \in OtherEvents :
            (IsTalkDelta(e.type) /\ OnMessageTraced(e))
              => interviewerState' = "talking" /\ talkingTimeoutRef' = "armed"
       /\ (talkingTimeoutRef = "armed" /\ talkingTimeoutRef' # "armed")
            => interviewerState' = "idle" /\ talkingTimeoutRef' = "stale"]_vars

\* C23 witness: the last message was a talk start and its timer has expired
C23_Witness ==
    /\ dataChannel = "open"
    /\ lastTerminal.talk = "start"
    /\ talkingTimeoutRef = "stale"
    /\ interviewerState = "idle"

\* C24: every talk-end event ends with interviewerState idle and no fallback
\* timer armed, and only a talk-start event arms the timer again.
C24_TalkEnd ==
    [][/\ \A e \in OtherEvents :
            (IsTalkEnd(e.type) /\ OnMessageTraced(e))
              => interviewerState' = "idle" /\ talkingTimeoutRef' # "armed"
       /\ (talkingTimeoutRef # "armed" /\ talkingTimeoutRef' = "armed")
            => dataChannel = "open" /\ lastTerminal'.talk = "start"]_vars

\* C24 witness: the last message was a talk end that found a timer to clear,
\* after the greeting
C24_Witness ==
    /\ dataChannel = "open"
    /\ lastTerminal.talk = "end"
    /\ talkingTimeoutRef = "stale"
    /\ interviewerState = "idle"
    /\ greetingTimers = 0

\* C25: a frame with RMS at or above the start threshold records the time
\* and sets the speaking mark, and writes talking exactly when the mark was
\* clear; a frame with RMS between the thresholds changes neither the mark,
\* the recorded time nor interviewerState.
C25_DriverBTransitions ==
    [][\A rms \in RmsLevels :
          (Tick(rms) /\ analyserRef # "null")
            => /\ rms >= VAD_START_THRESHOLD
                    => /\ silenceMs' = 0
                       /\ isSpeakingRef'
                       /\ interviewerState' = IF isSpeakingRef THEN interviewerState
                                               ELSE "talking"
               /\ (rms >= VAD_STOP_THRESHOLD /\ rms < VAD_START_THRESHOLD)
                    => UNCHANGED <<isSpeakingRef, silenceMs, interviewerState>>]_vars

\* C25 witness: in a session whose greeting timer is pending and whose
\* fallback timer was never armed, a frame has set the mark and talking
C25_Witness ==
    /\ dataChannel = "open"
    /\ analyserRef = "set"
    /\ isSpeakingRef
    /\ silenceMs = 0
    /\ interviewerState = "talking"
    /\ talkingTimeoutRef = "null"
    /\ greetingTimers = 1

\* C26: each writer's step ends with the value it writes, whatever the other
\* driver holds: a talk start ends talking, a talk end and a fallback expiry
\* end idle also while the speaking mark is set (and leave the mark set); a
\* frame that finds the mark set never writes talking, a frame that sets the
\* mark ends talking and a frame that clears it ends idle, also while the
\* fallback timer is armed.
C26_LastWriterWins ==
    [][/\ \A e \in OtherEvents :
            OnMessageTraced(e)
              => /\ IsTalkEnd(e.type) => interviewerState' = "idle"
                 /\ (IsTalkDelta(e.type) /\ ~IsTalkEnd(e.type))
                       => interviewerState' = "talking"
                 /\ isSpeakingRef' = isSpeakingRef
       /\ (talkingTimeoutRef = "armed" /\ talkingTimeoutRef' = "stale")
            => interviewerState' = "idle" /\ isSpeakingRef' = isSpeakingRef
       /\ \A rms \in RmsLevels :
            (Tick(rms) /\ analyserRef # "null")
              => /\ isSpeakingRef /\ isSpeakingRef' => interviewerState' = interviewerState
                 /\ ~isSpeakingRef /\ isSpeakingRef' => interviewerState' = "talking"
                 /\ isSpeakingRef /\ ~isSpeakingRef' => interviewerState' = "idle"
                 /\ talkingTimeoutRef' = talkingTimeoutRef]_vars

\* C26 witness: the last message was a talk end, the state is idle and the
\* speaking mark is set by a frame at the start threshold
C26_Witness ==
    /\ dataChannel = "open"
    /\ lastTerminal.talk = "end"
    /\ interviewerState = "idle"
    /\ isSpeakingRef
    /\ analyserRef = "set"
    /\ silenceMs = 0

\* text is text \o rest for some rest
IsPrefix(text, longer) ==
    Len(text) <= Len(longer) /\ SubSeq(longer, 1, Len(text)) = text

\* C29: a step after which a call's buffer no longer starts with the text it
\* held is the handling of a terminal event for that call on the open
\* channel; every other step (events that are not tool-shaped, events of
\* other calls, timer expiries, frames, the promotion of a completion,
\* session stop and start) leaves it in place, and a step that changes it at
\* all is the handling of a tool event of that call.
C29_BufferLifetime ==
    [][\A c \in CallIds :
          /\ ~IsPrefix(toolCallBuffersRef[c], toolCallBuffersRef'[c])
               => \E e \in LifetimeEvents :
                     /\ IsTerminalFor(e)
                     /\ ResolveCallId(e) = c
                     /\ OnMessageTraced(e)
          /\ toolCallBuffersRef'[c] # toolCallBuffersRef[c]
               => \E e \in LifetimeEvents :
                     /\ LooksLikeToolEvent(e.type)
                     /\ ResolveCallId(e) = c
                     /\ OnMessageTraced(e)]_vars

\* C29 witness: c1 holds a buffer, the last message was a talk start, and
\* since then the fallback timer has expired and the completion of another
\* call is shown
C29_Witness ==
    /\ dataChannel = "open"
    /\ toolCallBuffersRef["c1"] # <<>>
    /\ lastTerminal.talk = "start"
    /\ talkingTimeoutRef = "stale"
    /\ isInterviewCompleted

\* C30: interviewerState is entry, talking or idle after every step, and a
\* step that ends in entry from another value is the step that starts a
\* session.
C30_StateDomain ==
    [][/\ interviewerState' \in {"entry", "talking", "idle"}
       /\ (interviewerState # "entry" /\ interviewerState' = "entry")
            => ~isSessionActive /\ isSessionActive']_vars

\* C30 witness: in a session the greeting timer has taken the state from
\* entry to talking, with no fallback timer ever armed and no sampler
C30_Witness ==
    /\ isSessionActive
    /\ interviewerState = "talking"
    /\ greetingTimers = 0
    /\ talkingTimeoutRef = "null"
    /\ ~trackDelivered

\* terminal events of an identified call that carry structured arguments
StructuredTerminals == {e \in ToolEvents : IsTerminalFor(e) /\ e.arguments.t = "object"}

\* terminal events of an identified call that carry text
TextTerminals == {e \in ToolEvents : IsTerminalFor(e) /\ CarriedText(e) # <<>>}

\* C27: on the open channel, a terminal event with structured arguments
\* produces exactly that value as its arguments record when its call has no
\* buffered text, and the parse of the buffered text (the structured value
\* unused) when it has; and a terminal event handled last that carried
\* structured arguments for a call that never had text produced one of the
\* structured values.
C27_StructuredSubstitute ==
    dataChannel = "open"
      => /\ \A e \in StructuredTerminals :
               ProducedArguments(e) =
                 IF toolCallBuffersRef[ResolveCallId(e)] = <<>>
                 THEN e.arguments.v
                 ELSE ParsedArgs(toolCallBuffersRef[ResolveCallId(e)])
         /\ (/\ lastTerminal.callId \in CallIds
             /\ lastTerminal.carried = "object"
             /\ ~seenText[lastTerminal.callId])
               => /\ lastTerminal.parse = "parsed"
                  /\ lastTerminal.args \in StructuredArgs \cup {WrongTypes}

\* C27 witness: the terminal event of c1 carried the structured value with
\* summary S and reason R, c1 never had text, and that value is the record
\* pending
C27_Witness ==
    /\ dataChannel = "open"
    /\ lastTerminal.callId = "c1"
    /\ lastTerminal.name = "complete_interview"
    /\ lastTerminal.carried = "object"
    /\ ~seenText["c1"]
    /\ lastTerminal.args = JsonObject("S", "R")
    /\ pendingCompletion = Completion("S", "R")

\* C28: on the open channel, a terminal event that carries text (a delta, or
\* a textual arguments field) has the parser read the call's buffered text
\* followed by its own text, and produces the parse of that text.
C28_TerminalWithText ==
    dataChannel = "open"
      => \A e \in TextTerminals :
            /\ RawArgsAt(e) = toolCallBuffersRef[ResolveCallId(e)] \o CarriedText(e)
            /\ ProducedArguments(e) =
                  ParsedArgs(toolCallBuffersRef[ResolveCallId(e)] \o CarriedText(e))

\* C28 witness: the terminal event of c1 carried text and the record it
\* produced has the summary of an earlier fragment; the terminal event's
\* own text closed it
C28_Witness ==
    /\ dataChannel = "open"
    /\ lastTerminal.callId = "c1"
    /\ lastTerminal.name = "complete_interview"
    /\ lastTerminal.carried = "text"
    /\ lastTerminal.parse = "parsed"
    /\ lastTerminal.args = JsonObject("S", Undefined)
    /\ pendingCompletion = Completion("S", "")
    /\ toolCallBuffersRef["c1"] = <<>>

\* C35: whatever the tool handling of an event did (stored a record and
\* acknowledged, skipped the event, or threw), a talk-start type leaves the
\* state talking and the fallback timer armed, a talk-end type leaves the
\* state idle and no timer armed, and any other type leaves the state and
\* the timer as they were.
C35_DriverAIndependent ==
    [][\A e \in ListenerEvents :
          (lastTerminal' = TraceTerminal(e) /\ OnMessageTraced(e))
            => /\ IsTalkDelta(e.type)
                    => /\ interviewerState' = "talking"
                       /\ talkingTimeoutRef' = "armed"
                       /\ talkingTimers' = 1
               /\ IsTalkEnd(e.type)
                    => /\ interviewerState' = "idle"
                       /\ talkingTimers' = 0
               /\ (~IsTalkDelta(e.type) /\ ~IsTalkEnd(e.type))
                    => UNCHANGED <<interviewerState, talkingTimeoutRef, talkingTimers>>]_vars

\* C35 witness: the last message was a terminal complete_interview event
\* of a talk-start type whose arguments parsed to null, so that nothing was
\* stored or acknowledged, and the state is talking with the timer armed
C35_Witness ==
    /\ dataChannel = "open"
    /\ lastTerminal.name = "complete_interview"
    /\ lastTerminal.args = JsonNull
    /\ lastTerminal.talk = "start"
    /\ ~pendingCompletion.set
    /\ ~isInterviewCompleted
    /\ outbox = <<>>
    /\ greetingTimers = 1
    /\ interviewerState = "talking"
    /\ talkingTimeoutRef = "armed"

\* C36: at most one fallback timer is pending, and one is pending exactly
\* when talkingTimeoutRef names a timer that has neither fired nor been
\* cleared; so the timers armed by earlier talk starts were cancelled.
C36_SingleWatchdog ==
    /\ talkingTimers <= 1
    /\ talkingTimers = 1 <=> talkingTimeoutRef = "armed"

\* C36 witness: a completion is shown, the last message was a talk start,
\* and exactly one timer is pending, the one the ref names
C36_Witness ==
    /\ dataChannel = "open"
    /\ lastTerminal.talk = "start"
    /\ talkingTimers = 1
    /\ talkingTimeoutRef = "armed"
    /\ isInterviewCompleted
    /\ interviewerState = "talking"

\* C31: with timers firing and frames running, a pending completion leads
\* to a visible completion or to the end of the session.
C31_CompletionLiveness ==
    pendingCompletion.set ~> (isInterviewCompleted \/ ~isSessionActive)

\* C32: in a session, whenever interviewerState is talking a fallback timer
\* is pending or the speaking mark is set.
C32_NoUnguardedTalking ==
    (isSessionActive /\ interviewerState = "talking")
      => (talkingTimers > 0 \/ isSpeakingRef)

\* C33: while a completion stays visible, a step that ends with
\* interviewerState talking leaves the summary and the reason shown as they
\* were.
C33_VisibleRecordStable ==
    [][(isInterviewCompleted /\ isInterviewCompleted' /\ interviewerState' = "talking")
          => UNCHANGED <<completionSummary, completionReason>>]_vars

\* C34: between the start of a session and the delivery of its remote track
\* the speaking mark is clear.
C34_MarkClearAtStart ==
    (dataChannel = "connecting" /\ ~trackDelivered) => ~isSpeakingRef

\* tool events of the fragment type
DeltaEvents == {e \in LifetimeEvents : e.type = TypeFnArgsDelta}

\* terminal complete_interview events of an identified call
CompleteInterviewTerminals ==
    {e \in LifetimeEvents :
        /\ e.type = TypeFnArgsDone
        /\ ResolveCallId(e) # Undefined
        /\ ResolveName(e) = "complete_interview"}

\* C37: a step that changes the pending completion, the outbound channel or
\* the visibility of the completion is not the handling of a fragment
\* event; and a step that sends sends one event and is the handling of a
\* terminal complete_interview event, so the acknowledgments sent never
\* outnumber those events.
C37_FragmentsNoCompletionEffect ==
    [][/\ (\/ pendingCompletion' # pendingCompletion
           \/ outbox' # outbox
           \/ isInterviewCompleted' # isInterviewCompleted)
            => ~\E e \in DeltaEvents : OnMessageTraced(e)
       /\ Len(outbox') > Len(outbox)
            => /\ Len(outbox') = Len(outbox) + 1
               /\ \E e \in CompleteInterviewTerminals : OnMessageTraced(e)]_vars

\* C37 witness: c1 and c2 hold fragments while the one acknowledgment sent
\* is that of a completion still pending
C37_Witness ==
    /\ dataChannel = "open"
    /\ toolCallBuffersRef["c1"] # <<>>
    /\ toolCallBuffersRef["c2"] # <<>>
    /\ pendingCompletion.set
    /\ ~isInterviewCompleted
    /\ Len(outbox) = 1
    /\ lastTerminal = NoTerminal

\* fragment events of an identified call
FragmentEvents == {e \in ToolEvents : IsFragmentFor(e)}

\* C38: a fragment handled right after a terminal event of its call leaves
\* that call's buffer holding the fragment's text only.
C38_FreshBufferAfterFinality ==
    [][\A e \in FragmentEvents :
          (lastTerminal.callId = ResolveCallId(e) /\ OnMessageTraced(e))
            => toolCallBuffersRef'[ResolveCallId(e)] = CarriedText(e)]_vars

=============================================================================
